---- MODULE Spec2Model ----
(***************************************************************************)
(* DamFair: the balance-and-settlement engine (utils.ts,                   *)
(* DebtCalculator.tsx) and the forms that feed it (ExpenseForm.tsx,        *)
(* ParticipantsManager, App.tsx).                                          *)
(*                                                                         *)
(* Money.  The code computes with IEEE doubles.  Here every amount is an   *)
(* exact rational, held as an integer number of units, Cent units to the   *)
(* cent; Cent is a multiple of every possible |involved|, so that          *)
(* amount / involvedCount is exact.  Math.round is round-half-up           *)
(* (towards +Infinity), as ECMAScript defines it.  SpecOrder, which asks   *)
(* whether the order of the additions matters, computes in doubles.        *)
(***************************************************************************)
EXTENDS Integers, Sequences, FiniteSets, TLC

VARIABLES
    participants,    \* App state: Participant[]                (App.tsx:11)
    expenses,        \* App state: Expense[]                    (App.tsx:12)
    clock,           \* the value the next Date.now() returns
    newParticipantName, \* ParticipantsManager input            (DebtCalculator.tsx:404)
    error,           \* ParticipantsManager error               (DebtCalculator.tsx:405)
    description,     \* ExpenseForm state                       (ExpenseForm.tsx:6)
    amount,          \* ExpenseForm state, the input's text     (ExpenseForm.tsx:7)
    payer,           \* ExpenseForm state                       (ExpenseForm.tsx:8)
    involved,        \* ExpenseForm state                       (ExpenseForm.tsx:9)
    errors,          \* ExpenseForm state                       (ExpenseForm.tsx:10)
    balances,        \* DebtCalculator state                    (DebtCalculator.tsx:11)
    settlements,     \* DebtCalculator state                    (DebtCalculator.tsx:12)
    stats,           \* DebtCalculator state                    (DebtCalculator.tsx:13)
    statsMap,        \* the Map calculateParticipantStats returned (DebtCalculator.tsx:62)
    balanceArray,    \* calculateSettlements: its argument
    creditors,       \* calculateSettlements: local             (DebtCalculator.tsx:21)
    debtors,         \* calculateSettlements: local             (DebtCalculator.tsx:22)
    creditorIndex,   \* calculateSettlements: local             (DebtCalculator.tsx:24)
    debtorIndex,     \* calculateSettlements: local             (DebtCalculator.tsx:25)
    emitted,         \* calculateSettlements: local `settlements` (DebtCalculator.tsx:17)
    storage,         \* localStorage: the items of the two keys
    isInitialized,   \* App state                               (App.tsx:13)
    isInitialLoad,   \* App ref: isInitialLoad.current          (App.tsx:14)
    setItemThrows,   \* whether localStorage.setItem throws (quota, no storage)
    pc               \* position of calculateSettlements / of the effect

appVars  == <<participants, expenses, clock, newParticipantName, error>>
formVars == <<description, amount, payer, involved, errors>>
calcVars == <<balances, settlements, stats, statsMap>>
loopVars == <<balanceArray, creditors, debtors, creditorIndex, debtorIndex, emitted>>
envVars  == <<isInitialized, isInitialLoad, setItemThrows>>
storeVars == <<storage, envVars>>
vars     == <<appVars, formVars, calcVars, loopVars, storeVars, pc>>

----------------------------------------------------------------------------
(* Bounds *)

MaxP == 3          \* participants, and names an expense can mention
MaxExp == 1        \* expenses in the expense list
MaxCents == 3      \* largest expense amount, and largest |balance|, in cents
MaxBal == 4        \* length of a balance list handed to calculateSettlements
MaxClock == 3      \* last millisecond at which something is created
MaxOrd == 3        \* expenses in a list that is reordered
MaxEdit == 2       \* expenses in the expense list that is edited

----------------------------------------------------------------------------
(* Numbers *)

RECURSIVE GCD(_, _)
GCD(a, b) == IF b = 0 THEN a ELSE GCD(b, a % b)

LCM(a, b) == (a * b) \div GCD(a, b)

RECURSIVE LCMUpTo(_)
LCMUpTo(n) == IF n <= 1 THEN 1 ELSE LCM(n, LCMUpTo(n - 1))

\* Units per cent: every involvedCount in 1..MaxP divides it.
Cent == LCMUpTo(MaxP)

\* 0.02 for 0.01.
Tolerance_TwoCents == 2 * Cent

\* The literal 0.01 of the filter and of the zero tests.
Tolerance == Cent

Abs(x) == IF x < 0 THEN -x ELSE x

\* The creditor's amount, whatever the debtor owes.
Min_First(a, b) == a

\* Math.max for Math.min.
Min_AsMax(a, b) == IF a < b THEN b ELSE a

Min(a, b) == IF a < b THEN a ELSE b

\* Halves rounded away from zero.
MathRound_HalfAway(x) ==
    IF x >= 0 THEN (2 * x + Cent) \div (2 * Cent)
    ELSE -((2 * (-x) + Cent) \div (2 * Cent))

\* Math.round(q) for q = x / Cent: floor(q + 1/2).
MathRound(x) == (2 * x + Cent) \div (2 * Cent)

\* No rounding.
roundToTwoDecimals_Identity(x) == x

\* Math.round(amount * 100) / 100, in units.
roundToTwoDecimals(x) == MathRound(x) * Cent

----------------------------------------------------------------------------
(* IEEE doubles.  Where the order of the additions is what is asked about, *)
(* the totals are computed as the code computes them, in binary64:         *)
(* a positive double is m * 2^e with a significand m of Precision bits,    *)
(* held as its digits in base Base, lowest first (the model checker's      *)
(* integers have 32 bits); every operation rounds its exact result to the  *)
(* nearest double, ties to the even significand.                           *)

Precision == 53

Base == 2^15

LimbBits == CHOOSE b \in 1..30 : 2^b = Base

Limb(x, i) == IF i <= Len(x) THEN x[i] ELSE 0

RECURSIVE StripHigh(_)
StripHigh(x) ==
    IF x # <<>> /\ x[Len(x)] = 0 THEN StripHigh(SubSeq(x, 1, Len(x) - 1)) ELSE x

RECURSIVE LimbsOf(_)
LimbsOf(n) == IF n = 0 THEN <<>> ELSE <<n % Base>> \o LimbsOf(n \div Base)

RECURSIVE AddFrom(_, _, _, _)
AddFrom(x, y, i, c) ==
    IF i > Len(x) /\ i > Len(y)
    THEN (IF c = 0 THEN <<>> ELSE <<c>>)
    ELSE LET s == Limb(x, i) + Limb(y, i) + c
         IN  <<s % Base>> \o AddFrom(x, y, i + 1, s \div Base)

AddLimbs(x, y) == AddFrom(x, y, 1, 0)

RECURSIVE MulFrom(_, _, _, _)
MulFrom(x, k, i, c) ==
    IF i > Len(x)
    THEN (IF c = 0 THEN <<>> ELSE <<c>>)
    ELSE LET p == x[i] * k + c
         IN  <<p % Base>> \o MulFrom(x, k, i + 1, p \div Base)

\* x * k, for 0 < k <= Base.
MulSmall(x, k) == MulFrom(x, k, 1, 0)

RECURSIVE DivFrom(_, _, _, _)
DivFrom(x, k, i, r) ==
    IF i = 0 THEN [q |-> <<>>, r |-> r]
    ELSE LET r2   == r * Base + x[i]
             rest == DivFrom(x, k, i - 1, r2 % k)
         IN  [q |-> Append(rest.q, r2 \div k), r |-> rest.r]

\* Quotient and remainder of x by k, for 0 < k <= Base.
DivSmall(x, k) ==
    LET d == DivFrom(x, k, Len(x), 0)
    IN  [q |-> StripHigh(d.q), r |-> d.r]

\* The number of bits of x, x without high zeros.
BitLen(x) ==
    IF x = <<>> THEN 0
    ELSE LimbBits * (Len(x) - 1)
            + (CHOOSE b \in 1..LimbBits : 2^(b - 1) <= x[Len(x)] /\ x[Len(x)] < 2^b)

\* x * 2^t
ShiftLeftBits(x, t) ==
    [i \in 1..(t \div LimbBits) |-> 0] \o MulSmall(x, 2^(t % LimbBits))

\* x \div 2^s for s >= 1, with the highest bit shifted out (guard) and
\* whether any lower bit shifted out is set (sticky).
ShiftRightBits(x, s) ==
    LET a == s \div LimbBits
        b == s % LimbBits
        d == DivSmall(SubSeq(x, a + 1, Len(x)), 2^b)
    IN  IF b >= 1
        THEN [q      |-> d.q,
              guard  |-> d.r >= 2^(b - 1),
              sticky |-> \/ d.r % 2^(b - 1) # 0
                         \/ \E i \in 1..a : x[i] # 0]
        ELSE [q      |-> d.q,
              guard  |-> x[a] >= Base \div 2,
              sticky |-> \/ x[a] % (Base \div 2) # 0
                         \/ \E i \in 1..(a - 1) : x[i] # 0]

DoubleZero == [m |-> <<>>, e |-> 0]

\* The double nearest to M * 2^e, or to a value just above it when inexact
\* (M is then longer than Precision bits).
RoundToDouble(M, e, inexact) ==
    LET x == StripHigh(M)
        L == BitLen(x)
    IN  IF x = <<>> THEN DoubleZero
        ELSE IF L <= Precision
        THEN [m |-> ShiftLeftBits(x, Precision - L), e |-> e - (Precision - L)]
        ELSE LET s  == L - Precision
                 sh == ShiftRightBits(x, s)
                 up == sh.guard /\ (sh.sticky \/ inexact \/ sh.q[1] % 2 = 1)
                 q  == IF up THEN AddLimbs(sh.q, <<1>>) ELSE sh.q
             IN  IF BitLen(q) > Precision
                 THEN [m |-> DivSmall(q, 2).q, e |-> e + s + 1]
                 ELSE [m |-> q, e |-> e + s]

\* a + b, of doubles a, b >= 0.
DoubleAdd(a, b) ==
    IF a = DoubleZero THEN b
    ELSE IF b = DoubleZero THEN a
    ELSE LET e == IF a.e < b.e THEN a.e ELSE b.e
         IN  RoundToDouble(AddLimbs(ShiftLeftBits(a.m, a.e - e),
                                    ShiftLeftBits(b.m, b.e - e)), e, FALSE)

\* a / k, of a double a >= 0 and an integer 0 < k < 2^7.
DoubleDivInt(a, k) ==
    IF a = DoubleZero THEN DoubleZero
    ELSE LET d == DivSmall(<<0>> \o a.m, k)
         IN  RoundToDouble(d.q, a.e - LimbBits, d.r # 0)

DoubleOfInt(n) == RoundToDouble(LimbsOf(n), 0, FALSE)

\* The double that parseFloat gives for an amount typed with two decimals.
DoubleOfCents(c) == DoubleDivInt(DoubleOfInt(c), 100)

----------------------------------------------------------------------------
(* Names *)

Universe == <<"Alice", "Bob", "Carol", "Dave", "Erin", "Frank", "Grace">>

Names(n) == {Universe[i] : i \in 1..n}

\* A set of names as the list the form builds: in Universe order.
RECURSIVE ListOf(_, _)
ListOf(S, i) ==
    IF i > Len(Universe) THEN <<>>
    ELSE (IF Universe[i] \in S THEN <<Universe[i]>> ELSE <<>>) \o ListOf(S, i + 1)

Range(s) == {s[i] : i \in 1..Len(s)}

Front(s) == SubSeq(s, 1, Len(s) - 1)

Last(s) == s[Len(s)]

----------------------------------------------------------------------------
(* calculateParticipantStats: statsMap is a Map, kept here as the list of  *)
(* its entries in insertion order.                                         *)

MapHas(m, k) == \E i \in 1..Len(m) : m[i].name = k

MapIndex(m, k) == CHOOSE i \in 1..Len(m) : m[i].name = k

\* statsMap.set(k, {totalPaid: 0, totalOwed: 0})
MapSetZero(m, k) ==
    IF MapHas(m, k)
    THEN [m EXCEPT ![MapIndex(m, k)] = [name |-> k, totalPaid |-> 0, totalOwed |-> 0]]
    ELSE Append(m, [name |-> k, totalPaid |-> 0, totalOwed |-> 0])

RECURSIVE InitStats(_)
InitStats(ps) ==
    IF ps = <<>> THEN <<>>
    ELSE MapSetZero(InitStats(Front(ps)), Last(ps).name)

\* payerStats.totalPaid += amount, if the payer has an entry
CreditPayer(m, name, amt) ==
    IF MapHas(m, name)
    THEN [m EXCEPT ![MapIndex(m, name)].totalPaid = @ + amt]
    ELSE m

\* A lookup that creates the missing entry instead of skipping the name.
DebitInvolved_Upsert(m, name, share) ==
    IF MapHas(m, name)
    THEN [m EXCEPT ![MapIndex(m, name)].totalOwed = @ + share]
    ELSE Append(m, [name |-> name, totalPaid |-> 0, totalOwed |-> share])

\* participantStats.totalOwed += sharePerPerson, if the name has an entry
DebitInvolved(m, name, share) ==
    IF MapHas(m, name)
    THEN [m EXCEPT ![MapIndex(m, name)].totalOwed = @ + share]
    ELSE m

RECURSIVE DebitAll(_, _, _)
DebitAll(m, inv, share) ==
    IF inv = <<>> THEN m
    ELSE DebitAll(DebitInvolved(m, Head(inv), share), Tail(inv), share)

\* The amount split among every participant, not among the involved ones.
ProcessExpense_SplitAll(m, e) ==
    LET everyone       == [i \in 1..Len(m) |-> m[i].name]
        sharePerPerson == e.amount \div Len(m)
    IN  DebitAll(CreditPayer(m, e.payer, e.amount), everyone, sharePerPerson)

\* The division by involvedCount forgotten.
ProcessExpense_NoSplit(m, e) ==
    DebitAll(CreditPayer(m, e.payer, e.amount), e.involved, e.amount)

\* The body of expenses.forEach.
ProcessExpense(m, e) ==
    LET involvedCount  == Len(e.involved)
        sharePerPerson == e.amount \div involvedCount
    IN  DebitAll(CreditPayer(m, e.payer, e.amount), e.involved, sharePerPerson)

RECURSIVE ProcessExpenses(_, _)
ProcessExpenses(m, es) ==
    IF es = <<>> THEN m
    ELSE ProcessExpenses(ProcessExpense(m, Head(es)), Tail(es))

calculateParticipantStats(ps, es) == ProcessExpenses(InitStats(ps), es)

----------------------------------------------------------------------------
(* calculateParticipantStats in doubles: the same lines, the totals and    *)
(* the amounts being doubles.                                              *)

MapSetZeroIEEE(m, k) ==
    IF MapHas(m, k)
    THEN [m EXCEPT ![MapIndex(m, k)] =
             [name |-> k, totalPaid |-> DoubleZero, totalOwed |-> DoubleZero]]
    ELSE Append(m, [name |-> k, totalPaid |-> DoubleZero, totalOwed |-> DoubleZero])

RECURSIVE InitStatsIEEE(_)
InitStatsIEEE(ps) ==
    IF ps = <<>> THEN <<>>
    ELSE MapSetZeroIEEE(InitStatsIEEE(Front(ps)), Last(ps).name)

\* The amount credited to the first entry, whoever paid.
CreditPayerIEEE_First(m, name, amt) ==
    IF Len(m) > 0
    THEN [m EXCEPT ![1].totalPaid = DoubleAdd(@, amt)]
    ELSE m

\* payerStats.totalPaid += amount, if the payer has an entry
CreditPayerIEEE(m, name, amt) ==
    IF MapHas(m, name)
    THEN [m EXCEPT ![MapIndex(m, name)].totalPaid = DoubleAdd(@, amt)]
    ELSE m

\* participantStats.totalOwed += sharePerPerson, if the name has an entry
DebitInvolvedIEEE(m, name, share) ==
    IF MapHas(m, name)
    THEN [m EXCEPT ![MapIndex(m, name)].totalOwed = DoubleAdd(@, share)]
    ELSE m

RECURSIVE DebitAllIEEE(_, _, _)
DebitAllIEEE(m, inv, share) ==
    IF inv = <<>> THEN m
    ELSE DebitAllIEEE(DebitInvolvedIEEE(m, Head(inv), share), Tail(inv), share)

\* The body of expenses.forEach.
ProcessExpenseIEEE(m, e) ==
    LET involvedCount  == Len(e.involved)
        sharePerPerson == DoubleDivInt(e.amount, involvedCount)
    IN  DebitAllIEEE(CreditPayerIEEE(m, e.payer, e.amount), e.involved, sharePerPerson)

RECURSIVE ProcessExpensesIEEE(_, _)
ProcessExpensesIEEE(m, es) ==
    IF es = <<>> THEN m
    ELSE ProcessExpensesIEEE(ProcessExpenseIEEE(m, Head(es)), Tail(es))

calculateParticipantStatsIEEE(ps, es) == ProcessExpensesIEEE(InitStatsIEEE(ps), es)

----------------------------------------------------------------------------
(* calculateSettlements *)

\* Creditors sorted ascending.
CreditorOrder_Ascending(a, b) == a.amount - b.amount

CreditorOrder(a, b) == b.amount - a.amount

\* Debtors sorted descending.
DebtorOrder_Descending(a, b) == b.amount - a.amount

DebtorOrder(a, b) == a.amount - b.amount

Compare(side, a, b) ==
    IF side = "creditor" THEN CreditorOrder(a, b) ELSE DebtorOrder(a, b)

\* Array.prototype.sort is stable: x goes before the first element that
\* the comparator puts strictly after it.
RECURSIVE InsertStable(_, _, _)
InsertStable(side, sorted, x) ==
    IF sorted = <<>> THEN <<x>>
    ELSE IF Compare(side, Head(sorted), x) <= 0
         THEN <<Head(sorted)>> \o InsertStable(side, Tail(sorted), x)
         ELSE <<x>> \o sorted

RECURSIVE StableSort(_, _)
StableSort(side, s) ==
    IF s = <<>> THEN <<>>
    ELSE InsertStable(side, StableSort(side, Front(s)), Last(s))

\* Settled balances admitted among the creditors.
IsCreditor_NonNegative(b) == b.amount >= 0

\* >= for >.
IsCreditor_Inclusive(b) == b.amount >= Tolerance

IsCreditor(b) == b.amount > Tolerance

\* <= for <.
IsDebtor_Inclusive(b) == b.amount <= -Tolerance

IsDebtor(b) == b.amount < -Tolerance

\* The caller's own objects in place of copies (no clone, or [...balanceArray]).
CloneBalances_Shared(bs) ==
    [i \in 1..Len(bs) |->
        [name |-> bs[i].name, amount |-> bs[i].amount, sameAs |-> i]]

\* Line 18: balanceArray.map(b => ({ ...b })).  An object of the call
\* carries in sameAs the index of the caller's element that it is, 0 when
\* it is an object of its own.
CloneBalances(bs) ==
    [i \in 1..Len(bs) |->
        [name |-> bs[i].name, amount |-> bs[i].amount, sameAs |-> 0]]

Creditors(bs) == StableSort("creditor", SelectSeq(bs, IsCreditor))

Debtors(bs) == StableSort("debtor", SelectSeq(bs, IsDebtor))

\* The locals of the call as one record.
StartLoop(bs) ==
    [creditors |-> Creditors(CloneBalances(bs)),
     debtors |-> Debtors(CloneBalances(bs)),
     creditorIndex |-> 0, debtorIndex |-> 0, settlements |-> <<>>]

LoopCond(st) ==
    /\ st.creditorIndex < Len(st.creditors)
    /\ st.debtorIndex < Len(st.debtors)

\* <= for <.
IsZero_Inclusive(x) == Abs(x) <= Tolerance

IsZero(x) == Abs(x) < Tolerance

\* The cursor is never advanced.
Bump_Never(b) == 0

\* index++ under its test (lines 33, 34, 51, 52).
Bump(b) == IF b THEN 1 ELSE 0

\* Whether the iteration takes the skip branch (line 31).
Skips(st) ==
    \/ IsZero(st.creditors[st.creditorIndex + 1].amount)
    \/ IsZero(st.debtors[st.debtorIndex + 1].amount)

\* `to` taken from the debtor.
MakeSettlement_SelfPay(debtor, creditor, settlementAmount) ==
    [from   |-> debtor.name,
     to     |-> debtor.name,
     amount |-> roundToTwoDecimals(settlementAmount)]

\* The record pushed at lines 40-44.
MakeSettlement(debtor, creditor, settlementAmount) ==
    [from   |-> debtor.name,
     to     |-> creditor.name,
     amount |-> roundToTwoDecimals(settlementAmount)]

\* One iteration of the while loop.
LoopBody(st) ==
    LET ci       == st.creditorIndex + 1
        di       == st.debtorIndex + 1
        creditor == st.creditors[ci]
        debtor   == st.debtors[di]
    IN  IF Skips(st)
        THEN [st EXCEPT !.creditorIndex = @ + Bump(IsZero(creditor.amount)),
                        !.debtorIndex   = @ + Bump(IsZero(debtor.amount))]
        ELSE LET settlementAmount == Min(creditor.amount, Abs(debtor.amount))
                 newC == roundToTwoDecimals(creditor.amount - settlementAmount)
                 newD == roundToTwoDecimals(debtor.amount + settlementAmount)
             IN  [creditors     |-> [st.creditors EXCEPT ![ci].amount = newC],
                  debtors       |-> [st.debtors EXCEPT ![di].amount = newD],
                  creditorIndex |-> st.creditorIndex + Bump(IsZero(newC)),
                  debtorIndex   |-> st.debtorIndex + Bump(IsZero(newD)),
                  settlements   |-> Append(st.settlements,
                                      MakeSettlement(debtor, creditor, settlementAmount))]

RECURSIVE RunLoop(_)
RunLoop(st) == IF LoopCond(st) THEN RunLoop(LoopBody(st)) ELSE st

\* The list the call hands to setSettlements.
calculateSettlements(bs) == RunLoop(StartLoop(bs)).settlements

\* The caller's list bs as the caller finds it when the call has come to
\* st: an element that is one of the call's objects has that object's
\* amount, every other element is as it was.
CallerView(bs, st) ==
    LET objs == st.creditors \o st.debtors
    IN  [i \in 1..Len(bs) |->
            IF \E k \in 1..Len(objs) : objs[k].sameAs = i
            THEN LET k == CHOOSE k \in 1..Len(objs) : objs[k].sameAs = i
                 IN  [name |-> objs[k].name, amount |-> objs[k].amount]
            ELSE bs[i]]

----------------------------------------------------------------------------
(* DebtCalculator's effect *)

\* Owed minus paid.
BalanceOf_Flipped(s) ==
    [name |-> s.name, amount |-> roundToTwoDecimals(s.totalOwed - s.totalPaid)]

BalanceOf(s) ==
    [name |-> s.name, amount |-> roundToTwoDecimals(s.totalPaid - s.totalOwed)]

\* netBalance taken from the rounded totals.
StatsOf_FromRounded(s) ==
    [name       |-> s.name,
     totalPaid  |-> roundToTwoDecimals(s.totalPaid),
     totalOwed  |-> roundToTwoDecimals(s.totalOwed),
     netBalance |-> roundToTwoDecimals(s.totalPaid)
                       - roundToTwoDecimals(s.totalOwed)]

StatsOf(s) ==
    [name       |-> s.name,
     totalPaid  |-> roundToTwoDecimals(s.totalPaid),
     totalOwed  |-> roundToTwoDecimals(s.totalOwed),
     netBalance |-> roundToTwoDecimals(s.totalPaid - s.totalOwed)]

BalanceArrayOf(m) == [i \in 1..Len(m) |-> BalanceOf(m[i])]

StatsArrayOf(m) == [i \in 1..Len(m) |-> StatsOf(m[i])]

\* The effect's three setState calls, for the given props.
EffectSets(ps, es) ==
    IF Len(ps) > 0 /\ Len(es) > 0
    THEN LET m == calculateParticipantStats(ps, es)
             balanceArr == BalanceArrayOf(m)
             \* calculateSettlements(balanceArr), at its return
             call == RunLoop(StartLoop(balanceArr))
         IN  /\ statsMap' = m
             \* setBalances keeps the array that the call is then given
             /\ balances' = CallerView(balanceArr, call)
             /\ stats' = StatsArrayOf(m)
             /\ settlements' = call.settlements
    ELSE /\ statsMap' = <<>>
         /\ balances' = <<>>
         /\ stats' = <<>>
         /\ settlements' = <<>>

----------------------------------------------------------------------------
(* localStorage (utils.ts) and the effects of App that load from it and    *)
(* save to it.  An item is absent, or a text that JSON.parse rejects, or   *)
(* the JSON text of an array, kept here as the array of its JSON values.   *)

PARTICIPANTS == "damfair_participants"

EXPENSES == "damfair_expenses"

\* getItem returns null: the key is not there.
NullItem == [kind |-> "null", items |-> <<>>]

\* A text that is not JSON.
CorruptItem == [kind |-> "corrupt", items |-> <<>>]

ArrayText(items) == [kind |-> "array", items |-> items]

JsonString(s) == [string |-> s]

JsonNumber(x) == [number |-> x]

\* JSON.stringify of a Participant[]
StringifyParticipants(ps) ==
    ArrayText([i \in 1..Len(ps) |->
                  [id |-> JsonString(ps[i].id), name |-> JsonString(ps[i].name)]])

\* JSON.stringify of an Expense[]
StringifyExpenses(es) ==
    ArrayText([i \in 1..Len(es) |->
                  [id          |-> JsonString(es[i].id),
                   description |-> JsonString(es[i].description),
                   amount      |-> JsonNumber(es[i].amount),
                   payer       |-> JsonString(es[i].payer),
                   involved    |-> [k \in 1..Len(es[i].involved) |->
                                       JsonString(es[i].involved[k])],
                   date        |-> JsonString(es[i].date)]])

\* JSON.parse of an array of participants
ParseParticipants(items) ==
    [i \in 1..Len(items) |->
        [id |-> items[i].id.string, name |-> items[i].name.string]]

\* JSON.parse of an array of expenses
ParseExpenses(items) ==
    [i \in 1..Len(items) |->
        [id          |-> items[i].id.string,
         description |-> items[i].description.string,
         amount      |-> items[i].amount.number,
         payer       |-> items[i].payer.string,
         involved    |-> [k \in 1..Len(items[i].involved) |->
                             items[i].involved[k].string],
         date        |-> items[i].date.string]]

\* loadFromStorage(PARTICIPANTS) || []: null for an absent item and for a
\* text on which JSON.parse throws.
loadParticipants(st) ==
    IF st[PARTICIPANTS].kind = "array"
    THEN ParseParticipants(st[PARTICIPANTS].items)
    ELSE <<>>

\* loadFromStorage(EXPENSES) || []
loadExpenses(st) ==
    IF st[EXPENSES].kind = "array"
    THEN ParseExpenses(st[EXPENSES].items)
    ELSE <<>>

\* saveToStorage: setItem, whose exception is caught and logged.
saveToStorage(st, key, text) ==
    IF setItemThrows THEN st ELSE [st EXCEPT ![key] = text]

\* The test of isInitialized left out: the ref alone guards the save.
SaveEffect_RefOnly(st, initialized, key, text) ==
    IF ~isInitialLoad THEN saveToStorage(st, key, text) ELSE st

\* The body of the two saving effects of App (lines 43-56), for the values
\* of the render that the effect belongs to.
SaveEffect(st, initialized, key, text) ==
    IF initialized /\ ~isInitialLoad THEN saveToStorage(st, key, text) ELSE st

\* clearStorage
clearStorage(st) ==
    [st EXCEPT ![PARTICIPANTS] = NullItem, ![EXPENSES] = NullItem]

----------------------------------------------------------------------------
(* The state before anything has happened *)

IdleApp ==
    /\ participants = <<>>
    /\ expenses = <<>>
    /\ clock = 1
    /\ newParticipantName = ""
    /\ error = ""

IdleForm ==
    /\ description = ""
    /\ amount = ""
    /\ payer = ""
    /\ involved = <<>>
    /\ errors = <<>>

IdleCalc ==
    /\ balances = <<>>
    /\ settlements = <<>>
    /\ stats = <<>>
    /\ statsMap = <<>>

IdleLoop ==
    /\ balanceArray = <<>>
    /\ creditors = <<>>
    /\ debtors = <<>>
    /\ creditorIndex = 0
    /\ debtorIndex = 0
    /\ emitted = <<>>

\* The App initialised on a storage that held nothing.
IdleStore ==
    /\ storage = [k \in {PARTICIPANTS, EXPENSES} |-> ArrayText(<<>>)]
    /\ isInitialized = TRUE
    /\ isInitialLoad = FALSE
    /\ setItemThrows = FALSE

----------------------------------------------------------------------------
(* SpecSettle: calculateSettlements, one loop iteration per step, on every *)
(* balance list of at most MaxBal distinct names and whole cents, and on   *)
(* one list of larger amounts with two creditors and two debtors.          *)

\* Alice +50.00, Bob +20.00, Carol -40.00, Dave -30.00.
MultiCreditorBalances ==
    << [name |-> "Alice", amount |-> 5000 * Cent],
       [name |-> "Bob",   amount |-> 2000 * Cent],
       [name |-> "Carol", amount |-> (-4000) * Cent],
       [name |-> "Dave",  amount |-> (-3000) * Cent] >>

SettleInit ==
    /\ IdleApp /\ IdleForm /\ IdleCalc /\ IdleStore
    /\ \/ \E n \in 0..MaxBal :
            \E f \in [1..n -> {c * Cent : c \in -MaxCents..MaxCents}] :
               balanceArray = [i \in 1..n |-> [name |-> Universe[i], amount |-> f[i]]]
       \/ balanceArray = MultiCreditorBalances
    /\ creditors = <<>>
    /\ debtors = <<>>
    /\ creditorIndex = 0
    /\ debtorIndex = 0
    /\ emitted = <<>>
    /\ pc = "call"

LoopState ==
    [creditors |-> creditors, debtors |-> debtors,
     creditorIndex |-> creditorIndex, debtorIndex |-> debtorIndex,
     settlements |-> emitted]

SetLoopState(st) ==
    /\ creditors' = st.creditors
    /\ debtors' = st.debtors
    /\ creditorIndex' = st.creditorIndex
    /\ debtorIndex' = st.debtorIndex
    /\ emitted' = st.settlements

\* Lines 17-25: copy, filter, sort, reset the cursors.
CalcBegin ==
    /\ pc = "call"
    /\ SetLoopState(StartLoop(balanceArray))
    /\ balanceArray' = CallerView(balanceArray, StartLoop(balanceArray))
    /\ pc' = "loop"
    /\ UNCHANGED <<appVars, formVars, calcVars, storeVars>>

\* Lines 27-53: one iteration.
CalcIterate ==
    /\ pc = "loop"
    /\ LoopCond(LoopState)
    /\ SetLoopState(LoopBody(LoopState))
    /\ balanceArray' = CallerView(balanceArray, LoopBody(LoopState))
    /\ UNCHANGED <<appVars, formVars, calcVars, storeVars, pc>>

\* Line 55: the loop is over, setSettlements(settlements).
CalcReturn ==
    /\ pc = "loop"
    /\ ~LoopCond(LoopState)
    /\ settlements' = emitted
    /\ pc' = "done"
    /\ UNCHANGED <<appVars, formVars, balances, stats, statsMap, loopVars,
                   storeVars>>

SettleNext == CalcBegin \/ CalcIterate \/ CalcReturn

SpecSettle == SettleInit /\ [][SettleNext]_vars

----------------------------------------------------------------------------
(* Properties of calculateSettlements (SpecSettle) *)

InputPos(name) == CHOOSE i \in 1..Len(balanceArray) : balanceArray[i].name = name

InputAmt(name) == balanceArray[InputPos(name)].amount

RECURSIVE SumAmounts(_)
SumAmounts(s) == IF s = <<>> THEN 0 ELSE Head(s).amount + SumAmounts(Tail(s))

PaidBy(name, ss) == SumAmounts(SelectSeq(ss, LAMBDA s : s.from = name))

ReceivedBy(name, ss) == SumAmounts(SelectSeq(ss, LAMBDA s : s.to = name))

\* A participant's balance once every settlement of ss is applied.
AfterSettling(name, ss) == InputAmt(name) + PaidBy(name, ss) - ReceivedBy(name, ss)

InputCreditors == {i \in 1..Len(balanceArray) : balanceArray[i].amount > Tolerance}

InputDebtors == {i \in 1..Len(balanceArray) : balanceArray[i].amount < -Tolerance}

PosIn(list, name) == CHOOSE i \in 1..Len(list) : list[i].name = name

\* C2 (as claimed, read on the inputs the planner is specified for:
\* balance lists that sum to exactly zero): once the call has returned,
\* applying every emitted settlement to the input balances leaves every
\* participant within 0.01 of zero.
C2_SettlementCorrectness ==
    (pc = "done" /\ SumAmounts(balanceArray) = 0) =>
        \A i \in 1..Len(balanceArray) :
            Abs(AfterSettling(balanceArray[i].name, settlements)) <= Tolerance

\* C3 (as claimed): the number of settlements is at most
\* |creditors| + |debtors| - 1, also when both sets are empty.
C3_CountBound_Original ==
    pc = "done" =>
        Len(settlements) <= Cardinality(InputCreditors) + Cardinality(InputDebtors) - 1

\* C3 (amended): the number of settlements is at most
\* |creditors| + |debtors| - 1 when there is a creditor or a debtor, and is
\* zero when there is neither.
C3_CountBound ==
    pc = "done" =>
        IF InputCreditors = {} /\ InputDebtors = {}
        THEN Len(settlements) = 0
        ELSE Len(settlements)
                <= Cardinality(InputCreditors) + Cardinality(InputDebtors) - 1

\* The bound is met with three settlements.
C3_Witness ==
    /\ pc = "done"
    /\ Len(settlements) = 3
    /\ Cardinality(InputCreditors) + Cardinality(InputDebtors) = 4

\* C4: no settlement, emitted so far or handed to setSettlements, pays the
\* participant it is paid by.
C4_NoSelfPayment ==
    /\ \A k \in 1..Len(emitted) : emitted[k].from # emitted[k].to
    /\ \A k \in 1..Len(settlements) : settlements[k].from # settlements[k].to

C4_Witness ==
    /\ pc = "done"
    /\ Len(settlements) >= 2

\* C8: every settlement goes to a participant whose input balance is > 0.01
\* and comes from one whose input balance is < -0.01; a participant whose
\* input balance is in [-0.01, 0.01] is in no settlement; and when every
\* input balance is in that range nothing is emitted.
C8_Partition ==
    pc \in {"loop", "done"} =>
        /\ \A k \in 1..Len(emitted) :
              /\ InputAmt(emitted[k].to) > Tolerance
              /\ InputAmt(emitted[k].from) < -Tolerance
        /\ \A i \in 1..Len(balanceArray) :
              Abs(balanceArray[i].amount) <= Tolerance =>
                 \A k \in 1..Len(emitted) :
                    balanceArray[i].name \notin {emitted[k].from, emitted[k].to}
        /\ (\A i \in 1..Len(balanceArray) : Abs(balanceArray[i].amount) <= Tolerance)
              => emitted = <<>>
        /\ pc = "done" => settlements = emitted

\* Balances of exactly 0.01 and -0.01 stand beside a settled pair.
C8_Witness ==
    /\ pc = "done"
    /\ Len(settlements) >= 1
    /\ \E i, j \in 1..Len(balanceArray) :
          /\ balanceArray[i].amount = Tolerance
          /\ balanceArray[j].amount = -Tolerance

\* C9: the creditors are walked in descending order of input amount and the
\* debtors in ascending order, equal amounts in the order of the input list;
\* every creditor and debtor of the input is in the walk; and from one
\* emitted settlement to the next neither the creditor's nor the debtor's
\* position in the walk decreases.
C9_MatchingOrder ==
    pc \in {"loop", "done"} =>
        /\ {creditors[i].name : i \in 1..Len(creditors)}
              = {balanceArray[i].name : i \in InputCreditors}
        /\ {debtors[i].name : i \in 1..Len(debtors)}
              = {balanceArray[i].name : i \in InputDebtors}
        /\ Len(creditors) = Cardinality(InputCreditors)
        /\ Len(debtors) = Cardinality(InputDebtors)
        /\ \A i, j \in 1..Len(creditors) :
              i < j =>
                 \/ InputAmt(creditors[i].name) > InputAmt(creditors[j].name)
                 \/ /\ InputAmt(creditors[i].name) = InputAmt(creditors[j].name)
                    /\ InputPos(creditors[i].name) < InputPos(creditors[j].name)
        /\ \A i, j \in 1..Len(debtors) :
              i < j =>
                 \/ InputAmt(debtors[i].name) < InputAmt(debtors[j].name)
                 \/ /\ InputAmt(debtors[i].name) = InputAmt(debtors[j].name)
                    /\ InputPos(debtors[i].name) < InputPos(debtors[j].name)
        /\ \A k, l \in 1..Len(emitted) :
              k < l =>
                 /\ PosIn(creditors, emitted[k].to) <= PosIn(creditors, emitted[l].to)
                 /\ PosIn(debtors, emitted[k].from) <= PosIn(debtors, emitted[l].from)

\* Two creditors of unequal amounts, out of order in the input, both paid.
C9_Witness ==
    /\ pc = "done"
    /\ Len(settlements) >= 2
    /\ \E i, j \in InputCreditors :
          /\ i < j
          /\ balanceArray[i].amount < balanceArray[j].amount
          /\ \E k, l \in 1..Len(settlements) :
                /\ k < l
                /\ settlements[k].to = balanceArray[j].name
                /\ settlements[l].to = balanceArray[i].name

\* The value nearest to x that is a whole number of cents.
IsNearestCent(r, x) == r % Cent = 0 /\ 2 * Abs(r - x) <= Cent

\* C10: a step that emits a settlement emits it from the current debtor to
\* the current creditor, for min(creditor's remaining, |debtor's remaining|)
\* rounded to the cent, which is at least 0.01; and it lowers the creditor's
\* remaining amount and raises the debtor's by that amount.
C10_TransferAmount ==
    [][(pc = "loop" /\ Len(emitted') = Len(emitted) + 1) =>
          LET ci == creditorIndex + 1
              di == debtorIndex + 1
              c  == creditors[ci]
              d  == debtors[di]
              s  == emitted'[Len(emitted')]
              m  == IF c.amount < -d.amount THEN c.amount ELSE -d.amount
          IN  /\ s.from = d.name
              /\ s.to = c.name
              /\ IsNearestCent(s.amount, m)
              /\ s.amount >= Tolerance
              /\ creditors'[ci].amount = c.amount - s.amount
              /\ debtors'[di].amount = d.amount + s.amount]_vars

\* A settlement was emitted that left the creditor partly unpaid.
C10_Witness ==
    /\ pc = "loop"
    /\ Len(emitted) >= 1
    /\ creditorIndex < Len(creditors)
    /\ creditors[creditorIndex + 1].amount > 0
    /\ creditors[creditorIndex + 1].amount
          < InputAmt(creditors[creditorIndex + 1].name)

----------------------------------------------------------------------------
(* Termination of calculateSettlements (SpecSettle) *)

\* C11: the loop terminates: the cursors never pass the ends of their
\* lists, and every iteration that the loop condition admits makes
\* creditorIndex + debtorIndex strictly larger; an iteration that emits a
\* settlement leaves the current creditor's or the current debtor's amount
\* at zero and advances that cursor.  So the loop condition fails after at
\* most |creditors| + |debtors| iterations.
C11_Termination ==
    pc = "loop" =>
        /\ creditorIndex <= Len(creditors)
        /\ debtorIndex <= Len(debtors)
        /\ LoopCond(LoopState) =>
              LET st == LoopBody(LoopState)
              IN  /\ st.creditorIndex + st.debtorIndex
                        > creditorIndex + debtorIndex
                  /\ st.creditorIndex <= Len(creditors)
                  /\ st.debtorIndex <= Len(debtors)
                  /\ Len(st.settlements) > Len(emitted) =>
                        \/ /\ st.creditors[creditorIndex + 1].amount = 0
                           /\ st.creditorIndex = creditorIndex + 1
                        \/ /\ st.debtors[debtorIndex + 1].amount = 0
                           /\ st.debtorIndex = debtorIndex + 1

\* A call that has returned after three emitting iterations.
C11_Witness ==
    /\ pc = "done"
    /\ Len(emitted) >= 3
    /\ creditorIndex + debtorIndex >= 3

----------------------------------------------------------------------------
(* Worked example of calculateSettlements (SpecSettle) *)

\* C12: on the balances Alice +50, Bob +20, Carol -40, Dave -30 the call
\* returns exactly, in this order, Carol -> Alice 40, Dave -> Alice 10,
\* Dave -> Bob 20.
C12_MultiCreditorExample ==
    pc = "done" /\ balanceArray = MultiCreditorBalances =>
        settlements =
            << [from |-> "Carol", to |-> "Alice", amount |-> 4000 * Cent],
               [from |-> "Dave",  to |-> "Alice", amount |-> 1000 * Cent],
               [from |-> "Dave",  to |-> "Bob",   amount |-> 2000 * Cent] >>

\* The call on those balances has returned.
C12_Witness ==
    /\ pc = "done"
    /\ balanceArray = MultiCreditorBalances
    /\ Len(settlements) = 3

----------------------------------------------------------------------------
(* The caller's list (SpecSettle) *)

\* C17: no step of calculateSettlements changes the balance list it was
\* given: names, amounts and order stay as they were, the decrements go to
\* the call's own copies, so the list the caller displays after the call is
\* the list it had before.
C17_InputNotMutated ==
    [][balanceArray' = balanceArray]_vars

\* The call has lowered a creditor's and a debtor's amount in its copies.
C17_Witness ==
    /\ pc = "done"
    /\ \E k \in 1..Len(creditors) :
          creditors[k].amount # InputAmt(creditors[k].name)
    /\ \E k \in 1..Len(debtors) :
          debtors[k].amount # InputAmt(debtors[k].name)

----------------------------------------------------------------------------
(* Residual balances (SpecSettle) *)

\* C21: on every balance list, whatever its sum, the call comes to its
\* return: the cursors stay within their lists, every entry a cursor has
\* passed has a remaining magnitude below 0.01, and at the return
\* setSettlements is given the emitted list and one side is fully
\* discharged: every creditor's or every debtor's remaining magnitude is
\* below 0.01.  What is left on the other side is left without an error.
C21_ResidualOneSide ==
    /\ pc \in {"loop", "done"} =>
          /\ creditorIndex \in 0..Len(creditors)
          /\ debtorIndex \in 0..Len(debtors)
          /\ \A k \in 1..creditorIndex : Abs(creditors[k].amount) < Tolerance
          /\ \A k \in 1..debtorIndex : Abs(debtors[k].amount) < Tolerance
    /\ pc = "done" =>
          /\ settlements = emitted
          /\ \/ \A k \in 1..Len(creditors) : Abs(creditors[k].amount) < Tolerance
             \/ \A k \in 1..Len(debtors) : Abs(debtors[k].amount) < Tolerance

\* A list that does not sum to zero: the call has returned two settlements
\* and a debtor is left with a debt of 0.02 or more.
C21_Witness ==
    /\ pc = "done"
    /\ SumAmounts(balanceArray) # 0
    /\ Len(settlements) >= 2
    /\ \E k \in 1..Len(debtors) : debtors[k].amount <= -2 * Cent

----------------------------------------------------------------------------
(* Balanced lists (SpecSettle) *)

\* The list sums to exactly zero and has no balance of 0.01 or -0.01.
Balanced ==
    /\ SumAmounts(balanceArray) = 0
    /\ \A i \in 1..Len(balanceArray) :
          balanceArray[i].amount = 0 \/ Abs(balanceArray[i].amount) >= 2 * Cent

\* C27: when the balances are whole cents that sum to exactly zero and no
\* balance is 0.01 or -0.01, then at the return every creditor's and every
\* debtor's remaining amount is exactly zero, and what each participant
\* receives in settlements less what it pays is its input balance.
C27_ExactWhenBalanced ==
    pc = "done" /\ Balanced =>
        /\ \A k \in 1..Len(creditors) : creditors[k].amount = 0
        /\ \A k \in 1..Len(debtors) : debtors[k].amount = 0
        /\ \A i \in 1..Len(balanceArray) :
              ReceivedBy(balanceArray[i].name, settlements)
                 - PaidBy(balanceArray[i].name, settlements)
                 = balanceArray[i].amount

\* A balanced list has been settled in three payments, one creditor being
\* paid by two debtors and one debtor paying two creditors.
C27_Witness ==
    /\ pc = "done"
    /\ Balanced
    /\ Len(settlements) = 3
    /\ settlements[1].to = settlements[2].to
    /\ settlements[2].from = settlements[3].from

----------------------------------------------------------------------------
(* Overpayment (SpecSettle) *)

\* C28: while the loop runs and at the return, no creditor's remaining
\* amount is below zero and no debtor's above zero; and, whatever the sum
\* of the list, the settlements emitted so far make no debtor pay more than
\* the magnitude of its input balance and no creditor receive more than its
\* input balance.
C28_NoOverpayment ==
    pc \in {"loop", "done"} =>
        /\ \A k \in 1..Len(creditors) : creditors[k].amount >= 0
        /\ \A k \in 1..Len(debtors) : debtors[k].amount <= 0
        /\ \A k \in 1..Len(debtors) :
              PaidBy(debtors[k].name, emitted) <= -InputAmt(debtors[k].name)
        /\ \A k \in 1..Len(creditors) :
              ReceivedBy(creditors[k].name, emitted) <= InputAmt(creditors[k].name)
        /\ \A i \in 1..Len(balanceArray) :
              /\ balanceArray[i].amount >= 0 => PaidBy(balanceArray[i].name, emitted) = 0
              /\ balanceArray[i].amount <= 0 => ReceivedBy(balanceArray[i].name, emitted) = 0

\* In a list that owes more than it is owed, one debtor has paid two
\* creditors all of its debt and another has paid a part of its debt.
C28_Witness ==
    /\ pc = "done"
    /\ SumAmounts(balanceArray) < 0
    /\ Len(settlements) = 3
    /\ settlements[1].from = settlements[2].from
    /\ PaidBy(settlements[1].from, settlements) = -InputAmt(settlements[1].from)
    /\ \E k \in 1..Len(debtors) :
          /\ PaidBy(debtors[k].name, settlements) > 0
          /\ PaidBy(debtors[k].name, settlements) < -InputAmt(debtors[k].name)

----------------------------------------------------------------------------
(* The skip branch (SpecSettle) *)

\* C30: at the top of every iteration the current creditor's and the
\* current debtor's remaining amounts have magnitude of at least 0.01, so
\* the iteration does not take the skip branch and leaves one settlement
\* more than it found.
C30_SkipNeverTaken ==
    (pc = "loop" /\ LoopCond(LoopState)) =>
        /\ Abs(creditors[creditorIndex + 1].amount) >= Tolerance
        /\ Abs(debtors[debtorIndex + 1].amount) >= Tolerance
        /\ ~Skips(LoopState)
        /\ Len(LoopBody(LoopState).settlements) = Len(emitted) + 1

\* An iteration begins with a creditor that an earlier iteration has left
\* with exactly 0.01.
C30_Witness ==
    /\ pc = "loop"
    /\ LoopCond(LoopState)
    /\ Len(emitted) >= 1
    /\ creditors[creditorIndex + 1].amount = Tolerance

----------------------------------------------------------------------------
(* SpecStats: DebtCalculator's effect on every participant list of at most *)
(* MaxP names and every list of at most MaxExp expenses whose payer and    *)
(* involved names are among MaxP names (known or not), and on one dinner   *)
(* of 90.00 that Alice pays for Alice, Bob and Carol.                      *)

InvolvedLists == {ListOf(S, 1) : S \in (SUBSET Names(MaxP)) \ {{}}}

ExpenseInputs ==
    [cents : 1..MaxCents, payer : Names(MaxP), involved : InvolvedLists]

MakeExpense(i, x) ==
    [id |-> i, description |-> "Dinner", amount |-> x.cents * Cent,
     payer |-> x.payer, involved |-> x.involved, date |-> i]

DinnerExpense ==
    [id |-> 1, description |-> "Dinner", amount |-> 9000 * Cent,
     payer |-> "Alice", involved |-> <<"Alice", "Bob", "Carol">>, date |-> 1]

StatsInit ==
    /\ IdleForm /\ IdleCalc /\ IdleLoop /\ IdleStore
    /\ \E n \in 0..MaxP :
         participants = [i \in 1..n |-> [id |-> i, name |-> Universe[i]]]
    /\ \/ \E k \in 0..MaxExp :
            \E xs \in [1..k -> ExpenseInputs] :
               expenses = [i \in 1..k |-> MakeExpense(i, xs[i])]
       \/ expenses = <<DinnerExpense>>
    /\ clock = 1
    /\ newParticipantName = ""
    /\ error = ""
    /\ pc = "render"

\* Lines 59-86 of DebtCalculator.tsx.
DebtCalculatorEffect ==
    /\ pc = "render"
    /\ EffectSets(participants, expenses)
    /\ pc' = "shown"
    /\ UNCHANGED <<appVars, formVars, loopVars, storeVars>>

StatsNext == DebtCalculatorEffect

SpecStats == StatsInit /\ [][StatsNext]_vars

----------------------------------------------------------------------------
(* Properties of calculateParticipantStats and of the effect (SpecStats) *)

ParticipantNames == {participants[i].name : i \in 1..Len(participants)}

AllNamesKnown ==
    \A k \in 1..Len(expenses) :
        /\ expenses[k].payer \in ParticipantNames
        /\ Range(expenses[k].involved) \subseteq ParticipantNames

\* C1 (as claimed): whatever the payers and involved names, the balances
\* the effect builds sum to within 0.02 of zero.
C1_ZeroSum_Original ==
    pc = "shown" => Abs(SumAmounts(balances)) <= 2 * Cent

\* C1 (amended): when every payer and every involved name is a participant,
\* the balances the effect builds sum to within 0.005 * |participants| of
\* zero.
C1_ZeroSum ==
    (pc = "shown" /\ AllNamesKnown) =>
        2 * Abs(SumAmounts(balances)) <= Len(participants) * Cent

\* Known names only, and the roundings do not cancel.
C1_Witness ==
    /\ pc = "shown"
    /\ AllNamesKnown
    /\ Len(expenses) >= 1
    /\ Len(balances) = 3
    /\ SumAmounts(balances) = Cent

\* What the expenses es paid by name add up to.
RECURSIVE PaidTotal(_, _)
PaidTotal(name, es) ==
    IF es = <<>> THEN 0
    ELSE (IF Head(es).payer = name THEN Head(es).amount ELSE 0)
            + PaidTotal(name, Tail(es))

\* The shares of the expenses es that involve name, each share being the
\* amount over the length of the involved list.
RECURSIVE OwedTotal(_, _)
OwedTotal(name, es) ==
    IF es = <<>> THEN 0
    ELSE (IF name \in Range(Head(es).involved)
          THEN CHOOSE q \in 0..Head(es).amount :
                  q * Len(Head(es).involved) = Head(es).amount
          ELSE 0)
            + OwedTotal(name, Tail(es))

\* C5: the stats map has exactly one entry per participant and none for any
\* other name; a participant's totalPaid is the sum of the expenses that
\* name it as payer and its totalOwed the sum of amount / |involved| over
\* the expenses that involve it, |involved| counting unknown names too; so
\* an unknown payer or involved name adds nothing anywhere.
C5_UnknownNamesIgnored ==
    LET m == calculateParticipantStats(participants, expenses)
    IN  /\ Len(m) = Len(participants)
        /\ \A i \in 1..Len(m) :
              /\ m[i].name = participants[i].name
              /\ m[i].totalPaid = PaidTotal(m[i].name, expenses)
              /\ m[i].totalOwed = OwedTotal(m[i].name, expenses)
        /\ pc = "shown" =>
              /\ {stats[i].name : i \in 1..Len(stats)} \subseteq ParticipantNames
              /\ {balances[i].name : i \in 1..Len(balances)} \subseteq ParticipantNames

\* An expense paid by an unknown name for a known and an unknown name.
C5_Witness ==
    /\ pc = "shown"
    /\ Len(stats) >= 1
    /\ \E k \in 1..Len(expenses) :
          /\ expenses[k].payer \notin ParticipantNames
          /\ Range(expenses[k].involved) \cap ParticipantNames # {}
          /\ Range(expenses[k].involved) \ ParticipantNames # {}

----------------------------------------------------------------------------
(* Worked example of the effect (SpecStats) *)

\* C13: with participants Alice, Bob, Carol and the one expense of 90 paid
\* by Alice for all three, the stats are Alice paid 90, owed 30, net +60 and
\* Bob and Carol paid 0, owed 30, net -30 each, and the settlements are
\* Bob -> Alice 30 and then Carol -> Alice 30.
C13_EndToEndExample ==
    /\ pc = "shown"
    /\ [i \in 1..Len(participants) |-> participants[i].name]
          = <<"Alice", "Bob", "Carol">>
    /\ expenses = <<DinnerExpense>>
    => /\ stats =
            << [name |-> "Alice", totalPaid |-> 9000 * Cent,
                totalOwed |-> 3000 * Cent, netBalance |-> 6000 * Cent],
               [name |-> "Bob", totalPaid |-> 0,
                totalOwed |-> 3000 * Cent, netBalance |-> (-3000) * Cent],
               [name |-> "Carol", totalPaid |-> 0,
                totalOwed |-> 3000 * Cent, netBalance |-> (-3000) * Cent] >>
       /\ settlements =
            << [from |-> "Bob",   to |-> "Alice", amount |-> 3000 * Cent],
               [from |-> "Carol", to |-> "Alice", amount |-> 3000 * Cent] >>

\* The effect has run on the example.
C13_Witness ==
    /\ pc = "shown"
    /\ Len(participants) = 3
    /\ expenses = <<DinnerExpense>>
    /\ Len(settlements) = 2

----------------------------------------------------------------------------
(* The reported numbers (SpecStats) *)

\* An amount that lies exactly halfway between two whole cents.
IsHalfCent(x) == (2 * x) % Cent = 0 /\ x % Cent # 0

----------------------------------------------------------------------------
(* What the effect hands to calculateSettlements (SpecStats) *)

\* C19: the list given to calculateSettlements is the displayed balance
\* list; each of its amounts is a whole number of cents and is the
\* netBalance that the stats array reports for the same participant.
C19_RoundedBeforeSettlement ==
    pc = "shown" =>
        /\ settlements = calculateSettlements(balances)
        /\ Len(balances) = Len(stats)
        /\ \A i \in 1..Len(balances) :
              /\ balances[i].amount % Cent = 0
              /\ balances[i].name = stats[i].name
              /\ balances[i].amount = stats[i].netBalance

\* A balance that the rounding changed, in a list that holds a creditor.
C19_Witness ==
    /\ pc = "shown"
    /\ \E j \in 1..Len(balances) : IsCreditor(balances[j])
    /\ LET m == calculateParticipantStats(participants, expenses)
       IN  \E i \in 1..Len(balances) :
              balances[i].amount # m[i].totalPaid - m[i].totalOwed

----------------------------------------------------------------------------
(* Uninvolved participants and unread fields (SpecStats) *)

\* name pays no expense and is in no expense's involved list.
Uninvolved(name) ==
    \A k \in 1..Len(expenses) :
        /\ expenses[k].payer # name
        /\ name \notin Range(expenses[k].involved)

\* The expenses with other ids, another description and other dates.
Relabelled(es) ==
    [k \in 1..Len(es) |->
        [es[k] EXCEPT !.id = @ + MaxExp + k, !.description = "Lunch",
                      !.date = 0]]

\* C29: a participant who pays no expense and is involved in none has
\* totalPaid 0, totalOwed 0 and balance 0, in the map and in what is
\* displayed, and is named in no settlement; and the map, the stats, the
\* balances and the settlements are those of the same expenses under other
\* ids, descriptions and dates.
C29_UninvolvedUnaffected ==
    pc = "shown" =>
        /\ \A i \in 1..Len(participants) :
              Uninvolved(participants[i].name) =>
                 /\ \A j \in 1..Len(statsMap) :
                       statsMap[j].name = participants[i].name =>
                          statsMap[j].totalPaid = 0 /\ statsMap[j].totalOwed = 0
                 /\ \A j \in 1..Len(stats) :
                       stats[j].name = participants[i].name =>
                          /\ stats[j].totalPaid = 0
                          /\ stats[j].totalOwed = 0
                          /\ stats[j].netBalance = 0
                 /\ \A j \in 1..Len(balances) :
                       balances[j].name = participants[i].name =>
                          balances[j].amount = 0
                 /\ \A j \in 1..Len(settlements) :
                       /\ settlements[j].from # participants[i].name
                       /\ settlements[j].to # participants[i].name
        /\ (Len(participants) > 0 /\ Len(expenses) > 0) =>
              LET m == calculateParticipantStats(participants, Relabelled(expenses))
              IN  /\ statsMap = m
                  /\ stats = StatsArrayOf(m)
                  /\ balances = BalanceArrayOf(m)
                  /\ settlements = calculateSettlements(BalanceArrayOf(m))

\* Three participants, one of them in no expense, and a settlement between
\* the other two.
C29_Witness ==
    /\ pc = "shown"
    /\ Len(participants) = 3
    /\ Len(expenses) >= 1
    /\ \E i \in 1..3 : Uninvolved(participants[i].name)
    /\ Len(settlements) = 1

----------------------------------------------------------------------------
(* The rounding mode (SpecStats) *)

\* x rounded to whole cents, halves to the even cent.
RoundHalfEven(x) ==
    LET q == x \div Cent
        r == x - q * Cent
    IN  IF 2 * r < Cent THEN q * Cent
        ELSE IF 2 * r > Cent THEN (q + 1) * Cent
        ELSE IF q % 2 = 0 THEN q * Cent ELSE (q + 1) * Cent

\* x rounded to whole cents, halves away from zero.
RoundHalfAwayFromZero(x) ==
    IF x >= 0 THEN ((2 * x + Cent) \div (2 * Cent)) * Cent
    ELSE -(((2 * (-x) + Cent) \div (2 * Cent)) * Cent)

\* The values the effect rounds for the stats array, each with its rounding.
Roundings ==
    LET m == calculateParticipantStats(participants, expenses)
    IN  UNION {{ <<m[i].totalPaid, stats[i].totalPaid>>,
                 <<m[i].totalOwed, stats[i].totalOwed>>,
                 <<m[i].totalPaid - m[i].totalOwed, stats[i].netBalance>> }
               : i \in 1..Len(stats)}

\* C20, as stated: every rounding is to the nearest cent with an exact half
\* cent going to the even cent or away from zero, for negative values as
\* for positive ones.
C20_RoundingMode_Original ==
    pc = "shown" =>
        \A r \in Roundings :
            r[2] \in {RoundHalfEven(r[1]), RoundHalfAwayFromZero(r[1])}

\* C20, amended: every rounding is to the nearest cent, and an exact half
\* cent goes up, towards +Infinity, whatever the sign: on a negative half
\* cent the result is the cent nearer to zero, and it is not the negative of
\* the rounding of the positive value.
C20_RoundingMode ==
    pc = "shown" =>
        \A r \in Roundings :
            /\ r[2] % Cent = 0
            /\ 2 * Abs(r[2] - r[1]) <= Cent
            /\ IsHalfCent(r[1]) =>
                  /\ 2 * (r[2] - r[1]) = Cent
                  /\ r[2] # -roundToTwoDecimals(-r[1])

\* A balance of -0.015 reported as -0.01 beside one of +0.015 reported as
\* +0.02.
C20_Witness ==
    /\ pc = "shown"
    /\ \E r \in Roundings : 2 * r[1] = -3 * Cent /\ r[2] = -Cent
    /\ \E r \in Roundings : 2 * r[1] = 3 * Cent /\ r[2] = 2 * Cent

----------------------------------------------------------------------------
(* SpecOrder: calculateParticipantStats called on Alice, Bob and a list of *)
(* at most MaxOrd expenses of 0.10, 0.20 or 0.30 that Alice paid for       *)
(* herself or for both, then called again: on the same arguments, on the   *)
(* expenses in another order, or on the participants in the other order.   *)
(* The amounts and the totals are doubles.                                 *)

OrderInputs ==
    [cents : {10, 20, 30}, payer : {"Alice"},
     involved : {<<"Alice">>, <<"Alice", "Bob">>}]

OrderExpense(i, x) ==
    [id |-> i, description |-> "Dinner", amount |-> DoubleOfCents(x.cents),
     payer |-> x.payer, involved |-> x.involved, date |-> i]

OrderInit ==
    /\ IdleForm /\ IdleCalc /\ IdleLoop /\ IdleStore
    /\ participants = [i \in 1..2 |-> [id |-> i, name |-> Universe[i]]]
    /\ \E k \in 0..MaxOrd :
         \E xs \in [1..k -> OrderInputs] :
            expenses = [i \in 1..k |-> OrderExpense(i, xs[i])]
    /\ clock = 1
    /\ newParticipantName = ""
    /\ error = ""
    /\ pc = "fresh"

\* The list s in the order p, a permutation of its indices.
Permuted(s, p) == [i \in 1..Len(s) |-> s[p[i]]]

\* const statsMap = calculateParticipantStats(participants, expenses)
CallStats ==
    /\ pc \in {"fresh", "called", "expenses reordered", "participants reordered"}
    /\ statsMap' = calculateParticipantStatsIEEE(participants, expenses)
    /\ pc' = IF pc = "fresh" THEN "called" ELSE "compared"
    /\ UNCHANGED <<appVars, formVars, balances, settlements, stats, loopVars,
                   storeVars>>

ReorderExpenses ==
    /\ pc = "called"
    /\ \E p \in Permutations(1..Len(expenses)) :
          /\ expenses' = Permuted(expenses, p)
          /\ expenses' # expenses
    /\ pc' = "expenses reordered"
    /\ UNCHANGED <<participants, clock, newParticipantName, error, formVars,
                   calcVars, loopVars, storeVars>>

ReorderParticipants ==
    /\ pc = "called"
    /\ \E p \in Permutations(1..Len(participants)) :
          /\ participants' = Permuted(participants, p)
          /\ participants' # participants
    /\ pc' = "participants reordered"
    /\ UNCHANGED <<expenses, clock, newParticipantName, error, formVars,
                   calcVars, loopVars, storeVars>>

OrderNext == CallStats \/ ReorderExpenses \/ ReorderParticipants

SpecOrder == OrderInit /\ [][OrderNext]_vars

----------------------------------------------------------------------------
(* Properties of calculateParticipantStats under reordering (SpecOrder) *)

\* Every participant has the same totalPaid and totalOwed in both maps.
SameTotals(m1, m2) ==
    \A name \in ParticipantNames :
        /\ MapHas(m1, name)
        /\ MapHas(m2, name)
        /\ m1[MapIndex(m1, name)].totalPaid = m2[MapIndex(m2, name)].totalPaid
        /\ m1[MapIndex(m1, name)].totalOwed = m2[MapIndex(m2, name)].totalOwed

\* C14: the call on the expenses in another order gives every participant
\* the totalPaid and the totalOwed that the call on the first order gave.
C14_ExpenseOrderIndependence ==
    [][pc = "expenses reordered" /\ pc' = "compared" =>
           SameTotals(statsMap, statsMap')]_vars

\* C15: a second call on the same arguments returns the same map; and the
\* call on the participants in another order gives every name the totalPaid
\* and the totalOwed it had, the entries of the map following the order of
\* the list.
C15_ParticipantOrderIndependence ==
    [][/\ pc = "called" /\ pc' = "compared" => statsMap' = statsMap
       /\ pc = "participants reordered" /\ pc' = "compared" =>
             /\ SameTotals(statsMap, statsMap')
             /\ Len(statsMap') = Len(participants)
             /\ \A i \in 1..Len(statsMap') :
                   statsMap'[i].name = participants[i].name]_vars

\* Bob listed before Alice, each with totals of their own.
C15_Witness ==
    /\ pc = "compared"
    /\ Len(statsMap) = 2
    /\ statsMap[1].name = "Bob"
    /\ statsMap[2].name = "Alice"
    /\ statsMap[1].totalOwed # DoubleZero
    /\ statsMap[1].totalOwed # statsMap[2].totalOwed
    /\ statsMap[2].totalPaid # statsMap[1].totalPaid

----------------------------------------------------------------------------
(* Text: what the user can type, and the string functions the validators   *)
(* apply to it.                                                            *)

NameTexts == {"", " Alice ", "Bob"}

DescriptionTexts == {" ", " Dinner "}

AmountTexts == {"", "-1", "0.03"}

\* String.prototype.trim
Trim(s) ==
    CASE s = " "        -> ""
      [] s = " Alice "  -> "Alice"
      [] s = " Dinner " -> "Dinner"
      [] OTHER          -> s

\* String.prototype.toLowerCase
ToLowerCase(s) ==
    CASE s = "Alice"  -> "alice"
      [] s = "Bob"    -> "bob"
      [] s = "Dinner" -> "dinner"
      [] s = "ALICE"  -> "alice"
      [] OTHER        -> s

\* A JavaScript number: NaN, or a value in units.
NaN == [nan |-> TRUE, v |-> 0]

Num(x) == [nan |-> FALSE, v |-> x]

\* parseFloat of the amount input's text.
ParseFloat(s) ==
    CASE s = "0"    -> Num(0)
      [] s = "-1"   -> Num(-100 * Cent)
      [] s = "0.03" -> Num(3 * Cent)
      [] OTHER      -> NaN

----------------------------------------------------------------------------
(* Validation (utils.ts) *)

NoError == ""

\* The names compared as they are spelled.
validateParticipantName_CaseSensitive(name, existingParticipants) ==
    LET trimmedName == Trim(name)
        isDuplicate ==
            \E i \in 1..Len(existingParticipants) :
                existingParticipants[i].name = trimmedName
    IN  IF trimmedName = "" THEN "Please enter a participant name"
        ELSE IF isDuplicate THEN "A participant with this name already exists"
        ELSE NoError

validateParticipantName(name, existingParticipants) ==
    LET trimmedName == Trim(name)
        isDuplicate ==
            \E i \in 1..Len(existingParticipants) :
                ToLowerCase(existingParticipants[i].name) = ToLowerCase(trimmedName)
    IN  IF trimmedName = "" THEN "Please enter a participant name"
        ELSE IF isDuplicate THEN "A participant with this name already exists"
        ELSE NoError

\* The test amount <= 0 forgotten.
BadAmount_FalsyOnly(a) == a.nan \/ a.v = 0

\* !expense.amount || expense.amount <= 0
BadAmount(a) == a.nan \/ a.v = 0 \/ a.v <= 0

validateExpense(expense) ==
    (IF Trim(expense.description) = "" THEN <<"Description is required">> ELSE <<>>)
    \o (IF BadAmount(expense.amount) THEN <<"Amount must be greater than 0">> ELSE <<>>)
    \o (IF expense.payer = "" THEN <<"Please select a payer">> ELSE <<>>)
    \o (IF Len(expense.involved) = 0
        THEN <<"At least one participant must be involved">> ELSE <<>>)

----------------------------------------------------------------------------
(* Spec: the application.  A handler and the effects its state change      *)
(* triggers are one step.  What the user types into a text field is the    *)
(* input of the handler that reads the field.  Date.now() is read from     *)
(* clock; two creations are at least a millisecond apart (a successful add *)
(* or submit clears its text field, which has to be typed again).          *)

NamesOf(ps) == [i \in 1..Len(ps) |-> ps[i].name]

\* ExpenseForm's effect on [participants] (lines 13-23): the new payer.
FormEffectPayer(ps, p) ==
    IF Len(ps) > 0 /\ p = "" THEN ps[1].name ELSE p

\* ExpenseForm's effect on [participants] (lines 13-23): the new involved.
FormEffectInvolved(ps, inv) ==
    IF Len(ps) > 0 /\ (Len(inv) = 0 \/ Len(inv) # Len(ps)) THEN NamesOf(ps) ELSE inv

\* The effect of DebtCalculator not run when the participants change.
ParticipantsChanged_NoEffect(newParticipants) ==
    /\ participants' = newParticipants
    /\ payer' = FormEffectPayer(newParticipants, payer)
    /\ involved' = FormEffectInvolved(newParticipants, involved)
    /\ UNCHANGED calcVars
    /\ storage' = SaveEffect(storage, isInitialized, PARTICIPANTS,
                             StringifyParticipants(newParticipants))

\* App.handleParticipantsChange and the effects of the new participants prop.
ParticipantsChanged(newParticipants) ==
    /\ participants' = newParticipants
    /\ payer' = FormEffectPayer(newParticipants, payer)
    /\ involved' = FormEffectInvolved(newParticipants, involved)
    /\ EffectSets(newParticipants, expenses)
    /\ storage' = SaveEffect(storage, isInitialized, PARTICIPANTS,
                             StringifyParticipants(newParticipants))

AppInit ==
    /\ IdleApp /\ IdleForm /\ IdleCalc /\ IdleLoop /\ IdleStore
    /\ pc = "app"

\* The user types `text` into the name input (which clears the error) and
\* clicks Add: ParticipantsManager.addParticipant.  `later` is what
\* Date.now() returns at the next creation.
addParticipantAt(text, later) ==
    LET validationError == validateParticipantName(text, participants)
    IN  IF validationError # NoError
        THEN /\ error' = validationError
             /\ newParticipantName' = text
             /\ UNCHANGED <<participants, expenses, clock, formVars, calcVars,
                            loopVars, storeVars, pc>>
        ELSE /\ Len(participants) < MaxP
             /\ clock <= MaxClock
             /\ clock' = later
             /\ ParticipantsChanged(
                   Append(participants, [id |-> clock, name |-> Trim(text)]))
             /\ newParticipantName' = ""
             /\ error' = ""
             /\ UNCHANGED <<expenses, description, amount, errors,
                            loopVars, envVars, pc>>

\* The next creation is at least a millisecond later.
addParticipant(text) == addParticipantAt(text, clock + 1)

KeepOthers(ps, id) == SelectSeq(ps, LAMBDA x : x.id # id)

\* The expenses that the removed participant paid are removed as well.
removeParticipant_Cascade(id) ==
    LET gone == {participants[i].name : i \in {j \in 1..Len(participants) :
                                                  participants[j].id = id}}
        kept == SelectSeq(expenses, LAMBDA e : e.payer \notin gone)
    IN  /\ participants' = KeepOthers(participants, id)
        /\ payer' = FormEffectPayer(KeepOthers(participants, id), payer)
        /\ involved' = FormEffectInvolved(KeepOthers(participants, id), involved)
        /\ expenses' = kept
        /\ EffectSets(KeepOthers(participants, id), kept)
        /\ storage' =
              SaveEffect(SaveEffect(storage, isInitialized, PARTICIPANTS,
                             StringifyParticipants(KeepOthers(participants, id))),
                         isInitialized, EXPENSES, StringifyExpenses(kept))
        /\ UNCHANGED <<clock, newParticipantName, error, description,
                       amount, errors, loopVars, envVars, pc>>

\* ParticipantsManager.removeParticipant
removeParticipant(id) ==
    /\ ParticipantsChanged(KeepOthers(participants, id))
    /\ UNCHANGED <<expenses, clock, newParticipantName, error, description,
                   amount, errors, loopVars, envVars, pc>>

\* A click on a payer button.
setPayer(name) ==
    /\ payer' = name
    /\ UNCHANGED <<appVars, description, amount, involved, errors, calcVars,
                   loopVars, storeVars, pc>>

WithoutName(inv, name) == SelectSeq(inv, LAMBDA n : n # name)

\* ExpenseForm.handleInvolvedChange, called with checked = !isSelected.
handleInvolvedChange(participantName, checked) ==
    /\ involved' = IF checked THEN Append(involved, participantName)
                   ELSE WithoutName(involved, participantName)
    /\ UNCHANGED <<appVars, description, amount, payer, errors, calcVars,
                   loopVars, storeVars, pc>>

\* Select All and Clear All.
setInvolved(list) ==
    /\ involved' = list
    /\ UNCHANGED <<appVars, description, amount, payer, errors, calcVars,
                   loopVars, storeVars, pc>>

\* The user fills in the description and the amount and submits:
\* ExpenseForm.handleSubmit, then App.handleExpenseAdded.  `later` is what
\* Date.now() returns at the next creation, `room` the length up to which
\* the expense list is followed.
handleSubmitAt(descriptionText, amountText, later, room) ==
    LET expenseData == [description |-> Trim(descriptionText),
                        amount      |-> ParseFloat(amountText),
                        payer       |-> payer,
                        involved    |-> involved]
        validationErrors == validateExpense(expenseData)
        newExpense == [id          |-> clock,
                       description |-> expenseData.description,
                       amount      |-> expenseData.amount.v,
                       payer       |-> expenseData.payer,
                       involved    |-> expenseData.involved,
                       date        |-> clock]
    IN  IF Len(validationErrors) > 0
        THEN /\ errors' = validationErrors
             /\ description' = descriptionText
             /\ amount' = amountText
             /\ UNCHANGED <<appVars, payer, involved, calcVars, loopVars,
                            storeVars, pc>>
        ELSE /\ Len(expenses) < room
             /\ clock <= MaxClock
             /\ clock' = later
             /\ expenses' = Append(expenses, newExpense)
             /\ EffectSets(participants, Append(expenses, newExpense))
             /\ storage' = SaveEffect(storage, isInitialized, EXPENSES,
                               StringifyExpenses(Append(expenses, newExpense)))
             /\ description' = ""
             /\ amount' = ""
             /\ payer' = IF Len(participants) > 0 THEN participants[1].name ELSE ""
             /\ involved' = NamesOf(participants)
             /\ errors' = <<>>
             /\ UNCHANGED <<participants, newParticipantName, error,
                            loopVars, envVars, pc>>

\* The next creation is at least a millisecond later.
handleSubmit(descriptionText, amountText) ==
    handleSubmitAt(descriptionText, amountText, clock + 1, MaxExp)

\* App.handleExpenseDeleted
handleExpenseDeleted(expenseId) ==
    /\ expenses' = KeepOthers(expenses, expenseId)
    /\ EffectSets(participants, KeepOthers(expenses, expenseId))
    /\ storage' = SaveEffect(storage, isInitialized, EXPENSES,
                             StringifyExpenses(KeepOthers(expenses, expenseId)))
    /\ UNCHANGED <<participants, clock, newParticipantName, error, formVars,
                   loopVars, envVars, pc>>

\* The form is rendered only when there are participants (line 75).
FormShown == Len(participants) > 0

AddParticipant == \E text \in NameTexts : addParticipant(text)

RemoveParticipant ==
    \E i \in 1..Len(participants) : removeParticipant(participants[i].id)

SelectPayer ==
    /\ FormShown
    /\ \E i \in 1..Len(participants) : setPayer(participants[i].name)

ToggleInvolved ==
    /\ FormShown
    /\ \E i \in 1..Len(participants) :
          handleInvolvedChange(participants[i].name,
                               participants[i].name \notin Range(involved))

SelectAll == FormShown /\ setInvolved(NamesOf(participants))

ClearAll == FormShown /\ setInvolved(<<>>)

Submit ==
    /\ FormShown
    /\ \E d \in DescriptionTexts, a \in AmountTexts : handleSubmit(d, a)

DeleteExpense == \E k \in 1..Len(expenses) : handleExpenseDeleted(expenses[k].id)

Next ==
    \/ AddParticipant
    \/ RemoveParticipant
    \/ SelectPayer
    \/ ToggleInvolved
    \/ SelectAll
    \/ ClearAll
    \/ Submit
    \/ DeleteExpense

Spec == AppInit /\ [][Next]_vars

----------------------------------------------------------------------------
(* Properties of the forms (Spec) *)

\* A step of handleSubmit: nothing else writes these three fields.
SubmitStep ==
    \/ description' # description
    \/ amount' # amount
    \/ errors' # errors
    \/ Len(expenses') > Len(expenses)

\* C6 (as claimed): an expense that handleSubmit adds has a payer that is
\* the name of a participant present at that moment and involves only names
\* of participants present at that moment.
C6_SubmittedNamesArePresent ==
    [][Len(expenses') > Len(expenses) =>
          LET e == expenses'[Len(expenses')]
          IN  /\ e.payer \in ParticipantNames
              /\ Range(e.involved) \subseteq ParticipantNames]_vars

ValidExpense(e) ==
    /\ e.amount > 0
    /\ Len(e.involved) > 0
    /\ e.payer # ""
    /\ e.description # ""
    /\ e.description = Trim(e.description)

\* C7: a step of handleSubmit either appends one expense with amount > 0,
\* a non-empty involved list, a non-empty payer and a non-empty trimmed
\* description, or reports errors and leaves the expense list as it was; so
\* every expense in the list has a non-empty involved list to divide by.
C7_ValidatedExpenses ==
    [][/\ SubmitStep =>
             IF errors' # <<>>
             THEN expenses' = expenses
             ELSE /\ expenses' = Append(expenses, expenses'[Len(expenses')])
                  /\ ValidExpense(expenses'[Len(expenses')])
       /\ \A k \in 1..Len(expenses') : Len(expenses'[k].involved) > 0]_vars

\* An expense was accepted and a later submission was turned down.
C7_Witness ==
    /\ Len(expenses) = 1
    /\ Len(errors) >= 2
    /\ Len(involved) = 0
    /\ Len(stats) >= 1

----------------------------------------------------------------------------
(* SpecNames: the participant list as the user edits it, the names typed   *)
(* in several spellings.  A creation can fall into the millisecond of the  *)
(* one before it: Date.now() does not decrease, and need not advance.      *)

NameSpellings == {"", " ", " Alice ", "alice", "ALICE", "Bob"}

\* What Date.now() can return at the next creation.
LaterClock == {clock, clock + 1}

AddSpelledParticipant ==
    \E text \in NameSpellings, later \in LaterClock : addParticipantAt(text, later)

NamesNext == AddSpelledParticipant \/ RemoveParticipant

NamesInit ==
    /\ IdleApp /\ IdleForm /\ IdleCalc /\ IdleLoop /\ IdleStore
    /\ pc = "names"

SpecNames == NamesInit /\ [][NamesNext]_vars

----------------------------------------------------------------------------
(* SpecEdit: the two lists as the user edits them.  The expense list is    *)
(* followed up to MaxEdit expenses, each submitted with the payer and the  *)
(* involved names that the form then holds; a submission can fall into the *)
(* millisecond of the creation before it.                                  *)

EditAddParticipant ==
    \E text \in NameTexts : addParticipantAt(text, clock + 1)

EditSubmit ==
    /\ FormShown
    /\ \E later \in LaterClock : handleSubmitAt(" Dinner ", "0.03", later, MaxEdit)

EditNext ==
    \/ EditAddParticipant
    \/ RemoveParticipant
    \/ EditSubmit
    \/ DeleteExpense

EditInit ==
    /\ IdleApp /\ IdleForm /\ IdleCalc /\ IdleLoop /\ IdleStore
    /\ pc = "edit"

SpecEdit == EditInit /\ [][EditNext]_vars

----------------------------------------------------------------------------
(* Properties of the participant list (SpecNames) *)

\* No two entries of ps have names that are equal ignoring case, and no
\* entry has a name that is empty once trimmed.
DistinctNames(ps) ==
    /\ \A i, j \in 1..Len(ps) :
          i # j => ToLowerCase(ps[i].name) # ToLowerCase(ps[j].name)
    /\ \A i \in 1..Len(ps) : Trim(ps[i].name) # ""

\* C22: from the empty list on, no two participants have names that are
\* equal ignoring case and no participant has a name that is empty once
\* trimmed; a step of addParticipant either is rejected, leaving the list as
\* it was and setting an error message, or appends one participant, whose
\* name is the trimmed text, and clears the error.
C22_NameUniqueness ==
    [][/\ DistinctNames(participants')
       /\ Len(participants') >= Len(participants) =>
             \/ /\ participants' = participants
                /\ error' # ""
             \/ /\ Front(participants') = participants
                /\ Len(participants') = Len(participants) + 1
                /\ Last(participants').name = Trim(Last(participants').name)
                /\ error' = ""]_vars

\* Alice and Bob are listed, and ALICE has just been turned down.
C22_Witness ==
    /\ Len(participants) = 2
    /\ newParticipantName = "ALICE"
    /\ error = "A participant with this name already exists"
    /\ \E i \in 1..2 : participants[i].name = "Alice"

----------------------------------------------------------------------------
(* Identifiers (SpecNames) *)

\* C25 (as claimed, Date.now() not decreasing): the participants have
\* pairwise distinct ids and so have the expenses, and a step that removes
\* participants removes exactly one.
C25_IdUniqueness ==
    [][/\ \A i, j \in 1..Len(participants') :
             i # j => participants'[i].id # participants'[j].id
       /\ \A i, j \in 1..Len(expenses') :
             i # j => expenses'[i].id # expenses'[j].id
       /\ Len(participants') < Len(participants) =>
             Len(participants') = Len(participants) - 1]_vars

----------------------------------------------------------------------------
(* Properties of the two lists and of what is computed from them (SpecEdit) *)

\* C23: whatever was added, removed, submitted or deleted, once the effect
\* has run the displayed balances, stats and settlements are those computed
\* from the participants and expenses of that moment, and all three are
\* empty when either list is empty.
C23_NoStaleOutputs ==
    IF Len(participants) > 0 /\ Len(expenses) > 0
    THEN LET m == calculateParticipantStats(participants, expenses)
         IN  /\ balances = BalanceArrayOf(m)
             /\ stats = StatsArrayOf(m)
             /\ settlements = calculateSettlements(BalanceArrayOf(m))
    ELSE /\ balances = <<>>
         /\ stats = <<>>
         /\ settlements = <<>>

\* Two expenses are listed and their payer has been removed: the one
\* participant left is shown as owing, with nobody to pay.
C23_Witness ==
    /\ Len(participants) = 1
    /\ Len(expenses) = 2
    /\ \A k \in 1..2 : expenses[k].payer # participants[1].name
    /\ Len(balances) = 1
    /\ balances[1].amount < 0
    /\ settlements = <<>>

\* The expense ids in es.
IdsOf(es) == {es[k].id : k \in 1..Len(es)}

\* C24: a step leaves the expense list as it was, or appends one expense
\* to it, the others unchanged and in order, or removes from it exactly the
\* expenses of one id, the others unchanged and in order; and a step that
\* adds or removes a participant leaves the expense list as it was, the
\* expenses that name a removed participant included.
C24_AppendOrDeleteOnly ==
    [][/\ \/ expenses' = expenses
          \/ /\ Len(expenses') = Len(expenses) + 1
             /\ Front(expenses') = expenses
          \/ \E id \in IdsOf(expenses) :
                expenses' = SelectSeq(expenses, LAMBDA e : e.id # id)
       /\ participants' # participants => expenses' = expenses]_vars

\* Two expenses are listed and everyone has been removed.
C24_Witness ==
    /\ Len(expenses) = 2
    /\ participants = <<>>
    /\ expenses[1].payer # ""
    /\ expenses[2].involved # <<>>

----------------------------------------------------------------------------
(* SpecStore: the App from the moment the page is loaded.  The first       *)
(* render shows the initial state; its effects run in the order of their   *)
(* declaration, each with the state of that render: the loading effect     *)
(* queues the stored lists, the two saving effects follow; the next render *)
(* shows the loaded lists and runs the saving effects again.  From then on *)
(* the user edits the lists, reloads the page or resets everything, and    *)
(* the storage can begin to refuse what is written to it.                  *)

\* What an earlier session left under the participants key.
StoredParticipants ==
    {NullItem, CorruptItem,
     StringifyParticipants(<<[id |-> 0, name |-> "Bob"]>>)}

\* What an earlier session left under the expenses key.
StoredExpenses ==
    {NullItem,
     StringifyExpenses(<<[id |-> 0, description |-> "Dinner",
                          amount |-> 3 * Cent, payer |-> "Bob",
                          involved |-> <<"Bob">>, date |-> 0]>>)}

\* useState([]), useState([]), useState(false), useRef(true)
FirstRender ==
    /\ participants = <<>>
    /\ expenses = <<>>
    /\ isInitialized = FALSE
    /\ isInitialLoad = TRUE

StoreInit ==
    /\ FirstRender
    /\ IdleForm /\ IdleCalc /\ IdleLoop
    /\ clock = 1
    /\ newParticipantName = ""
    /\ error = ""
    /\ \E p \in StoredParticipants, e \in StoredExpenses :
          storage = [k \in {PARTICIPANTS, EXPENSES} |->
                        IF k = PARTICIPANTS THEN p ELSE e]
    /\ setItemThrows = FALSE
    /\ pc = "mount"

\* Lines 17-40: the loading effect of the first render.
LoadEffect ==
    /\ pc = "mount"
    /\ participants' = loadParticipants(storage)
    /\ expenses' = loadExpenses(storage)
    /\ isInitialized' = TRUE
    /\ isInitialLoad' = FALSE
    /\ pc' = "loaded"
    /\ UNCHANGED <<clock, newParticipantName, error, formVars, calcVars,
                   loopVars, storage, setItemThrows>>

\* Lines 43-56: the saving effects of the first render, which still has
\* the initial lists and isInitialized = false.
FirstSaveEffects ==
    /\ pc = "loaded"
    /\ storage' = SaveEffect(SaveEffect(storage, FALSE, PARTICIPANTS,
                                        StringifyParticipants(<<>>)),
                             FALSE, EXPENSES, StringifyExpenses(<<>>))
    /\ pc' = "rerender"
    /\ UNCHANGED <<appVars, formVars, calcVars, loopVars, envVars>>

\* The render that shows the loaded lists: the effects of ExpenseForm and
\* of DebtCalculator, now mounted, and the saving effects again.
SecondRender ==
    /\ pc = "rerender"
    /\ payer' = FormEffectPayer(participants, payer)
    /\ involved' = FormEffectInvolved(participants, involved)
    /\ EffectSets(participants, expenses)
    /\ storage' = SaveEffect(SaveEffect(storage, isInitialized, PARTICIPANTS,
                                        StringifyParticipants(participants)),
                             isInitialized, EXPENSES, StringifyExpenses(expenses))
    /\ pc' = "ready"
    /\ UNCHANGED <<appVars, description, amount, errors, loopVars, envVars>>

StoreAddParticipant ==
    /\ pc = "ready"
    /\ \E text \in NameTexts \ {""} : addParticipant(text)

StoreRemoveParticipant == pc = "ready" /\ RemoveParticipant

StoreSubmit ==
    /\ pc = "ready"
    /\ FormShown
    /\ handleSubmitAt(" Dinner ", "0.03", clock + 1, MaxEdit)

StoreDeleteExpense == pc = "ready" /\ DeleteExpense

\* What a page load resets: the state of every component.
PageLoad ==
    /\ participants' = <<>>
    /\ expenses' = <<>>
    /\ isInitialized' = FALSE
    /\ isInitialLoad' = TRUE
    /\ newParticipantName' = ""
    /\ error' = ""
    /\ description' = ""
    /\ amount' = ""
    /\ payer' = ""
    /\ involved' = <<>>
    /\ errors' = <<>>
    /\ balances' = <<>>
    /\ settlements' = <<>>
    /\ stats' = <<>>
    /\ statsMap' = <<>>
    /\ pc' = "mount"
    /\ UNCHANGED <<clock, loopVars, setItemThrows>>

\* The user reloads the page.
Reload ==
    /\ pc = "ready"
    /\ PageLoad
    /\ UNCHANGED storage

\* App.handleResetAll, confirmed (lines 58-70): clearStorage, the two lists
\* set to [], location.reload().  The saving effects of the emptied lists
\* run before the page is gone, or do not.
handleResetAll ==
    /\ pc = "ready"
    /\ \/ storage' = clearStorage(storage)
       \/ storage' = SaveEffect(SaveEffect(clearStorage(storage), isInitialized,
                                           PARTICIPANTS, StringifyParticipants(<<>>)),
                                isInitialized, EXPENSES, StringifyExpenses(<<>>))
    /\ PageLoad

\* The storage fills up: from now on setItem throws.
StorageFills ==
    /\ ~setItemThrows
    /\ setItemThrows' = TRUE
    /\ UNCHANGED <<appVars, formVars, calcVars, loopVars, storage,
                   isInitialized, isInitialLoad, pc>>

StoreNext ==
    \/ LoadEffect
    \/ FirstSaveEffects
    \/ SecondRender
    \/ StoreAddParticipant
    \/ StoreRemoveParticipant
    \/ StoreSubmit
    \/ StoreDeleteExpense
    \/ Reload
    \/ handleResetAll
    \/ StorageFills

SpecStore == StoreInit /\ [][StoreNext]_vars

----------------------------------------------------------------------------
(* Persistence (SpecStore) *)

\* A step of the initialised App that changes the participant list, or the
\* render that first shows the loaded lists.
ParticipantsToSave ==
    /\ pc' = "ready"
    /\ pc = "rerender" \/ participants' # participants

\* The same for the expense list.
ExpensesToSave ==
    /\ pc' = "ready"
    /\ pc = "rerender" \/ expenses' # expenses

\* Nothing is written between the page load and the render that shows the
\* loaded lists, which are the lists that the storage then holds: the
\* initial empty lists are not saved.
LoadedBeforeSaved ==
    /\ pc \in {"mount", "loaded"} => storage' = storage
    /\ pc = "mount" /\ pc' = "loaded" =>
          /\ storage[PARTICIPANTS].kind = "array" =>
                StringifyParticipants(participants') = storage[PARTICIPANTS]
          /\ storage[PARTICIPANTS].kind # "array" => participants' = <<>>
          /\ storage[EXPENSES].kind = "array" =>
                StringifyExpenses(expenses') = storage[EXPENSES]
          /\ storage[EXPENSES].kind # "array" => expenses' = <<>>

====
